---- MODULE Spec2Model ----
(* Model of src/web_monitor.py: the monitoring loop (monitor_websites), the  *)
(* data-access functions it calls and the /start, /stop, /status handlers,   *)
(* all running on one asyncio event loop.                                    *)
(*                                                                           *)
(* Scheduling.  Every handler body and every stretch of monitor_websites     *)
(* between two `await asyncio.sleep(60)` runs without suspension: the        *)
(* coroutines get_websites_from_db, scrape_website and send_change_alert     *)
(* contain no await of their own, and psycopg2, requests and smtplib block   *)
(* the thread.  `running` names the task that holds the thread; handlers     *)
(* and other tasks run only when it is 0.  A task made by create_task runs   *)
(* its first statement only after the handler has returned; tasks start in   *)
(* creation order and sleepers wake in the order they went to sleep (all     *)
(* sleeps have the same length).                                             *)
EXTENDS Integers, Sequences, FiniteSets, TLC

\* ---------------------------------------------------------------- bounds
MaxTasks == 2        \* loop instances ever launched by /start
MaxRows == 2         \* rows website_snapshots can hold; inserts fail beyond

\* ------------------------------------------------------ program constants
MaxCycles == 10      \* while cycle < 10

\* ------------------------------------------------------------ input sets
Tasks == 1..MaxTasks

T1 == [url |-> "u1", email |-> "e1"]
T2 == [url |-> "u2", email |-> "e2"]

\* results of SELECT url, email, phone FROM websites (<<>>: no rows, or the
\* exception path of get_websites_from_db)
TargetLists == {<<>>, <<T1>>, <<T1, T2>>}

\* page texts as sequences of characters
Pages == {<<>>, <<"a">>, <<"a", " ">>, <<"b">>}

\* The runs explored, by what the process's surroundings do in them.
\* loops: the /start requests that launch a loop; lists: what the registry
\* returns; pages: the texts the sites serve; rows: the rows the snapshot
\* table can take.  In both, every fetch, registry read, snapshot write,
\* snapshot read and mail submission may also fail.
\*   PagesWorld: one loop instance, up to two targets, pages whose text
\*   changes in and beyond its surrounding whitespace.
\*   LoopsWorld: up to MaxTasks loop instances, at most one target, a page
\*   whose text never changes.
PagesWorld == [loops |-> 1, lists |-> TargetLists, pages |-> Pages,
               rows |-> MaxRows]
LoopsWorld == [loops |-> MaxTasks, lists |-> {<<>>, <<T1>>},
               pages |-> {<<>>, <<"a">>}, rows |-> 1]

None == <<"None">>   \* Python None for contents
NoTime == <<>>       \* Python None for timestamps

VARIABLES
  is_running, started_at, current_cycle, last_check, \* monitoring_status
  website_snapshots,   \* table rows in insertion (scraped_at) order
  pc, cycle, websites, idx,     \* per task: position and locals
  current_content, previous_content, \* locals of the task holding the thread
  ntasks,              \* tasks created so far
  timers,              \* tasks in asyncio.sleep, in wake-up order
  running,             \* task holding the thread, 0 if none
  resp,                \* response of the handler that ran in the last step
  exit,                \* per task: how monitor_websites left its loop
  stopSeen,            \* per task: "no", "req" (a /stop was requested since
                       \* its launch and before its end), "cleared" (a
                       \* /stop cleared the flag while it was between its
                       \* first and last statement)
  lastFetch,           \* per url: content of the latest successful fetch
  world,               \* what the surroundings do in this run (never changes)
  it                   \* record of the target iteration in progress

vars == <<is_running, started_at, current_cycle, last_check, website_snapshots,
          pc, cycle, websites, idx, current_content, previous_content,
          ntasks, timers, running, resp, exit, stopSeen, lastFetch, it, world>>

runstate == <<is_running, started_at, current_cycle, last_check>>
ghosts == <<exit, stopSeen, lastFetch, it, world>>

\* ------------------------------------------------------- pure functions
Whitespace == {" "}

RECURSIVE lstrip(_)
lstrip(s) == IF s # <<>> /\ Head(s) \in Whitespace THEN lstrip(Tail(s)) ELSE s

RECURSIVE rstrip(_)
rstrip(s) ==
  IF s # <<>> /\ s[Len(s)] \in Whitespace
  THEN rstrip(SubSeq(s, 1, Len(s) - 1)) ELSE s

\* str.strip()
strip(s) == rstrip(lstrip(s))

\* truth value of a str-or-None
Truthy(c) == c # None /\ c # <<>>

\* datetime.now() as a logical timestamp naming the read: distinct reads
\* give distinct values
NowStart(t) == <<t>>
NowCheck(t) == <<t, cycle[t], idx[t]>>

RowsOf(rows, url) == {i \in 1..Len(rows) : rows[i].url = url}

\* mutant: no row is inserted when the content equals the latest snapshot
save_scrape_to_db_Dedup(rows, url, content, ok) ==
  IF ok /\ (RowsOf(rows, url) = {}
            \/ rows[CHOOSE i \in RowsOf(rows, url) :
                      \A j \in RowsOf(rows, url) : j <= i].content # content)
  THEN Append(rows, [url |-> url, content |-> content])
  ELSE rows

\* INSERT INTO website_snapshots (url, content, scraped_at); ok = FALSE is
\* the exception path (return False)
save_scrape_to_db(rows, url, content, ok) ==
  IF ok THEN Append(rows, [url |-> url, content |-> content]) ELSE rows

\* the outcomes of an insert: it can fail always, and succeed while the table
\* has room
WriteOutcomes == {ok \in BOOLEAN : ok => Len(website_snapshots) < world.rows}

\* mutant: the WHERE url = %s clause is missing
get_last_snapshot_AnyUrl(rows, url) ==
  IF rows = <<>> THEN None ELSE rows[Len(rows)].content

\* SELECT content FROM website_snapshots WHERE url = %s
\* ORDER BY scraped_at DESC LIMIT 1
get_last_snapshot(rows, url) ==
  IF RowsOf(rows, url) = {} THEN None
  ELSE rows[CHOOSE i \in RowsOf(rows, url) :
              \A j \in RowsOf(rows, url) : j <= i].content

\* mutant: the texts are compared untrimmed
Changed_Raw(prev, cur) == Truthy(prev) /\ prev # cur

\* previous_content and previous_content.strip() != current_content.strip()
Changed(prev, cur) == Truthy(prev) /\ strip(prev) # strip(cur)

\* the message handed to smtplib; sent = FALSE is the exception path
send_change_alert(email, url, sent) == [to |-> email, url |-> url, sent |-> sent]

Target(t) == websites[t][idx[t]]

\* it: url of the target; rows0, had, prevSnap: the table's size, whether it
\* holds a row of this url and the latest such row's content, all as the
\* iteration began; prevFetch: the content of the previous successful fetch
\* of this url; saved, readok: whether the insert and the select succeeded;
\* alerts: the messages sent
NoIter == [url |-> "", rows0 |-> 0, had |-> FALSE, prevSnap |-> None,
           prevFetch |-> None,
           saved |-> FALSE, readok |-> FALSE, alerts |-> <<>>]

NoResp == [h |-> "", message |-> "", is_running |-> FALSE,
           started_at |-> NoTime, current_cycle |-> 0, last_check |-> NoTime]

Active(t) == pc[t] \notin {"none", "done"}
Begun(t) == pc[t] \notin {"none", "created", "done"}

\* ------------------------------------------------------------------ Init
Init(w) ==
  /\ is_running = FALSE
  /\ started_at = NoTime
  /\ current_cycle = 0
  /\ last_check = NoTime
  /\ website_snapshots = <<>>
  /\ pc = [t \in Tasks |-> "none"]
  /\ cycle = [t \in Tasks |-> 0]
  /\ websites = [t \in Tasks |-> <<>>]
  /\ idx = [t \in Tasks |-> 0]
  /\ current_content = None
  /\ previous_content = None
  /\ ntasks = 0
  /\ timers = <<>>
  /\ running = 0
  /\ resp = NoResp
  /\ exit = [t \in Tasks |-> "none"]
  /\ stopSeen = [t \in Tasks |-> "no"]
  /\ lastFetch = [u \in {"u1", "u2"} |-> None]
  /\ it = NoIter
  /\ world = w

\* ------------------------------------------------------------- handlers
\* mutant: the handler itself raises the flag when it creates the task
start_monitoring_SetsFlag ==
  /\ running = 0
  /\ IF is_running
     THEN /\ resp' = [NoResp EXCEPT !.h = "start", !.message = "already",
                        !.started_at = started_at,
                        !.current_cycle = current_cycle]
          /\ UNCHANGED <<pc, ntasks, is_running>>
     ELSE /\ ntasks < world.loops
          /\ ntasks' = ntasks + 1
          /\ pc' = [pc EXCEPT ![ntasks + 1] = "created"]
          /\ is_running' = TRUE
          /\ resp' = [NoResp EXCEPT !.h = "start", !.message = "started"]
  /\ UNCHANGED <<started_at, current_cycle, last_check, website_snapshots,
                 cycle, websites, idx, current_content, previous_content,
                 timers, running, ghosts>>

\* GET /start
start_monitoring ==
  /\ running = 0
  /\ IF is_running
     THEN /\ resp' = [NoResp EXCEPT !.h = "start", !.message = "already",
                        !.started_at = started_at,
                        !.current_cycle = current_cycle]
          /\ UNCHANGED <<pc, ntasks>>
     ELSE /\ ntasks < world.loops
          /\ ntasks' = ntasks + 1
          /\ pc' = [pc EXCEPT ![ntasks + 1] = "created"]   \* asyncio.create_task
          /\ resp' = [NoResp EXCEPT !.h = "start", !.message = "started"]
  /\ UNCHANGED <<runstate, website_snapshots, cycle, websites, idx,
                 current_content, previous_content, timers, running, ghosts>>

\* GET /stop
stop_monitoring ==
  /\ running = 0
  /\ IF ~is_running
     THEN /\ resp' = [NoResp EXCEPT !.h = "stop", !.message = "not running"]
          /\ stopSeen' = [t \in Tasks |->
                IF Active(t) /\ stopSeen[t] = "no" THEN "req" ELSE stopSeen[t]]
          /\ UNCHANGED is_running
     ELSE /\ is_running' = FALSE
          /\ resp' = [NoResp EXCEPT !.h = "stop", !.message = "stopping"]
          /\ stopSeen' = [t \in Tasks |->
                IF Begun(t) THEN "cleared"
                ELSE IF Active(t) /\ stopSeen[t] = "no" THEN "req"
                ELSE stopSeen[t]]
  /\ UNCHANGED <<started_at, current_cycle, last_check, website_snapshots,
                 pc, cycle, websites, idx, current_content, previous_content,
                 ntasks, timers, running, exit, lastFetch, it, world>>

\* GET /status
get_monitoring_status ==
  /\ running = 0
  /\ resp' = [h |-> "status", message |-> "", is_running |-> is_running,
              started_at |-> started_at, current_cycle |-> current_cycle,
              last_check |-> last_check]
  /\ UNCHANGED <<runstate, website_snapshots, pc, cycle, websites, idx,
                 current_content, previous_content, ntasks, timers, running,
                 ghosts>>

\* ---------------------------------------------------- monitor_websites
\* the task's first step: lines 165-169
Begin(t) ==
  /\ running = 0
  /\ pc[t] = "created"
  /\ \A u \in Tasks : pc[u] = "created" => t <= u
  /\ running' = t
  /\ is_running' = TRUE
  /\ started_at' = NowStart(t)
  /\ current_cycle' = 0
  /\ cycle' = [cycle EXCEPT ![t] = 0]
  /\ pc' = [pc EXCEPT ![t] = "while"]
  /\ resp' = NoResp
  /\ UNCHANGED <<last_check, website_snapshots, websites, idx,
                 current_content, previous_content, ntasks, timers, ghosts>>

\* mutant: while cycle <= 10
WhileHead_OneMore(t) ==
  /\ running = t
  /\ pc[t] = "while"
  /\ resp' = NoResp
  /\ IF cycle[t] <= MaxCycles
     THEN /\ cycle' = [cycle EXCEPT ![t] = cycle[t] + 1]
          /\ current_cycle' = cycle[t] + 1
          /\ \E ws \in world.lists :
               /\ websites' = [websites EXCEPT ![t] = ws]
               /\ IF ws = <<>>
                  THEN /\ pc' = [pc EXCEPT ![t] = "finally"]
                       /\ exit' = [exit EXCEPT ![t] = "empty"]
                       /\ UNCHANGED idx
                  ELSE /\ pc' = [pc EXCEPT ![t] = "for"]
                       /\ idx' = [idx EXCEPT ![t] = 1]
                       /\ UNCHANGED exit
     ELSE /\ pc' = [pc EXCEPT ![t] = "finally"]
          /\ exit' = [exit EXCEPT ![t] = "cycles"]
          /\ UNCHANGED <<cycle, current_cycle, websites, idx>>
  /\ UNCHANGED <<is_running, started_at, last_check, website_snapshots,
                 current_content, previous_content, ntasks, timers, running,
                 stopSeen, lastFetch, it, world>>

\* mutant: current_cycle is set after the empty-list check
WhileHead_CycleLate(t) ==
  /\ running = t
  /\ pc[t] = "while"
  /\ resp' = NoResp
  /\ IF cycle[t] < MaxCycles
     THEN /\ cycle' = [cycle EXCEPT ![t] = cycle[t] + 1]
          /\ \E ws \in world.lists :
               /\ websites' = [websites EXCEPT ![t] = ws]
               /\ IF ws = <<>>
                  THEN /\ pc' = [pc EXCEPT ![t] = "finally"]
                       /\ exit' = [exit EXCEPT ![t] = "empty"]
                       /\ UNCHANGED <<idx, current_cycle>>
                  ELSE /\ pc' = [pc EXCEPT ![t] = "for"]
                       /\ idx' = [idx EXCEPT ![t] = 1]
                       /\ current_cycle' = cycle[t] + 1
                       /\ UNCHANGED exit
     ELSE /\ pc' = [pc EXCEPT ![t] = "finally"]
          /\ exit' = [exit EXCEPT ![t] = "cycles"]
          /\ UNCHANGED <<cycle, current_cycle, websites, idx>>
  /\ UNCHANGED <<is_running, started_at, last_check, website_snapshots,
                 current_content, previous_content, ntasks, timers, running,
                 stopSeen, lastFetch, it, world>>

\* while cycle < 10: cycle += 1; websites = await get_websites_from_db();
\* if not websites: break
WhileHead(t) ==
  /\ running = t
  /\ pc[t] = "while"
  /\ resp' = NoResp
  /\ IF cycle[t] < MaxCycles
     THEN /\ cycle' = [cycle EXCEPT ![t] = cycle[t] + 1]
          /\ current_cycle' = cycle[t] + 1
          /\ \E ws \in world.lists :
               /\ websites' = [websites EXCEPT ![t] = ws]
               /\ IF ws = <<>>
                  THEN /\ pc' = [pc EXCEPT ![t] = "finally"]
                       /\ exit' = [exit EXCEPT ![t] = "empty"]
                       /\ UNCHANGED idx
                  ELSE /\ pc' = [pc EXCEPT ![t] = "for"]
                       /\ idx' = [idx EXCEPT ![t] = 1]
                       /\ UNCHANGED exit
     ELSE /\ pc' = [pc EXCEPT ![t] = "finally"]
          /\ exit' = [exit EXCEPT ![t] = "cycles"]
          /\ UNCHANGED <<cycle, current_cycle, websites, idx>>
  /\ UNCHANGED <<is_running, started_at, last_check, website_snapshots,
                 current_content, previous_content, ntasks, timers, running,
                 stopSeen, lastFetch, it, world>>

\* mutant: last_check is not set before the fetch
ForHead_NoStamp(t) ==
  /\ running = t
  /\ pc[t] = "for"
  /\ resp' = NoResp
  /\ IF idx[t] > Len(websites[t])
     THEN /\ pc' = [pc EXCEPT ![t] = "while"]
          /\ UNCHANGED <<exit, it>>
     ELSE IF ~is_running
     THEN /\ pc' = [pc EXCEPT ![t] = "finally"]
          /\ exit' = [exit EXCEPT ![t] = "stopped"]
          /\ UNCHANGED it
     ELSE /\ pc' = [pc EXCEPT ![t] = "scrape"]
          /\ it' = [NoIter EXCEPT !.url = Target(t).url,
                      !.rows0 = Len(website_snapshots),
                      !.had = (RowsOf(website_snapshots, Target(t).url) # {}),
                      !.prevSnap = get_last_snapshot(website_snapshots,
                                                     Target(t).url),
                      !.prevFetch = lastFetch[Target(t).url]]
          /\ UNCHANGED exit
  /\ UNCHANGED <<is_running, started_at, current_cycle, last_check,
                 website_snapshots, cycle, websites, idx, current_content,
                 previous_content, ntasks, timers, running, stopSeen,
                 lastFetch, world>>

\* for url, email, phone in websites: the stop check and last_check
\* (lines 180-186); past the last target, line 202
ForHead(t) ==
  /\ running = t
  /\ pc[t] = "for"
  /\ resp' = NoResp
  /\ IF idx[t] > Len(websites[t])
     THEN /\ pc' = [pc EXCEPT ![t] = "while"]
          /\ UNCHANGED <<last_check, exit, it>>
     ELSE IF ~is_running
     THEN /\ pc' = [pc EXCEPT ![t] = "finally"]
          /\ exit' = [exit EXCEPT ![t] = "stopped"]
          /\ UNCHANGED <<last_check, it>>
     ELSE /\ last_check' = NowCheck(t)
          /\ pc' = [pc EXCEPT ![t] = "scrape"]
          /\ it' = [NoIter EXCEPT !.url = Target(t).url,
                      !.rows0 = Len(website_snapshots),
                      !.had = (RowsOf(website_snapshots, Target(t).url) # {}),
                      !.prevSnap = get_last_snapshot(website_snapshots,
                                                     Target(t).url),
                      !.prevFetch = lastFetch[Target(t).url]]
          /\ UNCHANGED exit
  /\ UNCHANGED <<is_running, started_at, current_cycle, website_snapshots,
                 cycle, websites, idx, current_content, previous_content,
                 ntasks, timers, running, stopSeen, lastFetch, world>>

\* current_content = await scrape_website(url)
Scrape(t) ==
  /\ running = t
  /\ pc[t] = "scrape"
  /\ resp' = NoResp
  /\ \E c \in world.pages \cup {None} : current_content' = c
  /\ pc' = [pc EXCEPT ![t] = "fetched"]
  /\ UNCHANGED <<runstate, website_snapshots, cycle, websites, idx,
                 previous_content, ntasks, timers, running, ghosts>>

\* if not current_content: continue
CheckContent(t) ==
  /\ running = t
  /\ pc[t] = "fetched"
  /\ resp' = NoResp
  /\ IF ~Truthy(current_content)
     THEN /\ idx' = [idx EXCEPT ![t] = idx[t] + 1]
          /\ pc' = [pc EXCEPT ![t] = "for"]
          /\ current_content' = None
          /\ it' = NoIter
          /\ UNCHANGED lastFetch
     ELSE /\ pc' = [pc EXCEPT ![t] = "save"]
          /\ lastFetch' = [lastFetch EXCEPT ![it.url] = current_content]
          /\ UNCHANGED <<idx, current_content, it>>
  /\ UNCHANGED <<runstate, website_snapshots, cycle, websites,
                 previous_content, ntasks, timers, running, exit, stopSeen, world>>

\* mutant: save_scrape_to_db lets its exception out, which ends the loop
Process_WriteRaises(t) ==
  /\ running = t
  /\ pc[t] = "save"
  /\ resp' = NoResp
  /\ \E wok \in WriteOutcomes, rok, mok \in BOOLEAN :
       LET rows == save_scrape_to_db(website_snapshots, Target(t).url,
                                     current_content, wok)
           prev == IF rok THEN get_last_snapshot(rows, Target(t).url) ELSE None
       IN IF ~wok
          THEN /\ pc' = [pc EXCEPT ![t] = "finally"]
               /\ UNCHANGED <<website_snapshots, previous_content, it>>
          ELSE /\ website_snapshots' = rows
               /\ previous_content' = prev
               /\ it' = [it EXCEPT
                           !.saved = TRUE,
                           !.readok = rok,
                           !.alerts = IF Changed(prev, current_content)
                                      THEN <<send_change_alert(Target(t).email,
                                                               Target(t).url, mok)>>
                                      ELSE <<>>]
               /\ pc' = [pc EXCEPT ![t] = "wait"]
  /\ UNCHANGED <<runstate, cycle, websites, idx, current_content, ntasks,
                 timers, running, exit, stopSeen, lastFetch, world>>

\* lines 192-197: save_scrape_to_db(url, current_content), whose returned
\* flag is dropped; previous_content = get_last_snapshot(url); the
\* comparison; await send_change_alert(email, url, phone)
Process(t) ==
  /\ running = t
  /\ pc[t] = "save"
  /\ resp' = NoResp
  /\ \E wok \in WriteOutcomes, rok, mok \in BOOLEAN :
       LET rows == save_scrape_to_db(website_snapshots, Target(t).url,
                                     current_content, wok)
           prev == IF rok THEN get_last_snapshot(rows, Target(t).url) ELSE None
       IN /\ website_snapshots' = rows
          /\ previous_content' = prev
          /\ it' = [it EXCEPT
                      !.saved = wok,
                      !.readok = rok,
                      !.alerts = IF Changed(prev, current_content)
                                 THEN <<send_change_alert(Target(t).email,
                                                          Target(t).url, mok)>>
                                 ELSE <<>>]
  /\ pc' = [pc EXCEPT ![t] = "wait"]
  /\ UNCHANGED <<runstate, cycle, websites, idx, current_content, ntasks,
                 timers, running, exit, stopSeen, lastFetch, world>>

\* await asyncio.sleep(60): the task gives up the thread
Sleep(t) ==
  /\ running = t
  /\ pc[t] = "wait"
  /\ resp' = NoResp
  /\ pc' = [pc EXCEPT ![t] = "sleeping"]
  /\ timers' = Append(timers, t)
  /\ running' = 0
  /\ current_content' = None
  /\ previous_content' = None
  /\ it' = NoIter
  /\ UNCHANGED <<runstate, website_snapshots, cycle, websites, idx, ntasks,
                 exit, stopSeen, lastFetch, world>>

\* the sleep is over: the for loop moves to the next target
Wake(t) ==
  /\ running = 0
  /\ pc[t] = "sleeping"
  /\ timers # <<>> /\ Head(timers) = t
  /\ resp' = NoResp
  /\ timers' = Tail(timers)
  /\ running' = t
  /\ idx' = [idx EXCEPT ![t] = idx[t] + 1]
  /\ pc' = [pc EXCEPT ![t] = "for"]
  /\ UNCHANGED <<runstate, website_snapshots, cycle, websites,
                 current_content, previous_content, ntasks, ghosts>>

\* mutant: the flag is reset on the stop and cycle paths only
Finally_NotOnBreak(t) ==
  /\ running = t
  /\ pc[t] = "finally"
  /\ resp' = NoResp
  /\ is_running' = IF exit[t] = "empty" THEN is_running ELSE FALSE
  /\ pc' = [pc EXCEPT ![t] = "done"]
  /\ running' = 0
  /\ cycle' = [cycle EXCEPT ![t] = 0]
  /\ websites' = [websites EXCEPT ![t] = <<>>]
  /\ idx' = [idx EXCEPT ![t] = 0]
  /\ UNCHANGED <<started_at, current_cycle, last_check, website_snapshots,
                 current_content, previous_content, ntasks, timers, exit,
                 stopSeen, lastFetch, it, world>>

\* finally: monitoring_status["is_running"] = False; the task ends
Finally(t) ==
  /\ running = t
  /\ pc[t] = "finally"
  /\ resp' = NoResp
  /\ is_running' = FALSE
  /\ pc' = [pc EXCEPT ![t] = "done"]
  /\ running' = 0
  /\ cycle' = [cycle EXCEPT ![t] = 0]
  /\ websites' = [websites EXCEPT ![t] = <<>>]
  /\ idx' = [idx EXCEPT ![t] = 0]
  /\ UNCHANGED <<started_at, current_cycle, last_check, website_snapshots,
                 current_content, previous_content, ntasks, timers, exit,
                 stopSeen, lastFetch, it, world>>

TaskStep(t) ==
  \/ Begin(t)
  \/ WhileHead(t)
  \/ ForHead(t)
  \/ Scrape(t)
  \/ CheckContent(t)
  \/ Process(t)
  \/ Sleep(t)
  \/ Wake(t)
  \/ Finally(t)

Next ==
  \/ start_monitoring
  \/ stop_monitoring
  \/ get_monitoring_status
  \/ \E t \in Tasks : TaskStep(t)

InitPages == Init(PagesWorld)
InitLoops == Init(LoopsWorld)

SpecPages == InitPages /\ [][Next]_vars
SpecLoops == InitLoops /\ [][Next]_vars

\* the event loop runs every ready task and fires every due timer
FairLoops == SpecLoops /\ \A t \in Tasks : WF_vars(TaskStep(t))

TypeOK ==
  /\ is_running \in BOOLEAN
  /\ current_cycle \in 0..MaxCycles
  /\ Len(website_snapshots) <= MaxRows
  /\ running \in 0..MaxTasks
  /\ ntasks \in 0..MaxTasks

\* ================================================================ claims
\* the target iteration of task t has run lines 188-197 and is about to wait
Compared(t) == running = t /\ pc[t] = "wait"

\* C1: when a successful fetch of a url follows a successful fetch of it with
\* trimmed-different content, and the snapshot writes (of both fetches) and
\* the snapshot read succeed, exactly one notification is sent, to the
\* target's email for that url.
C1_ChangeNotifiedOnce ==
  \A t \in Tasks :
    ( /\ Compared(t)
      /\ it.prevFetch # None
      /\ it.prevSnap = it.prevFetch
      /\ strip(it.prevFetch) # strip(current_content)
      /\ it.saved /\ it.readok )
    => /\ Len(it.alerts) = 1
       /\ it.alerts[1].to = Target(t).email
       /\ it.alerts[1].url = Target(t).url

\* C2: when a successful fetch of a url follows a successful fetch of it with
\* trimmed-equal content, no notification is sent for the second fetch,
\* whether or not snapshot writes fail.
C2_NoChangeSilent ==
  \A t \in Tasks :
    ( /\ Compared(t)
      /\ it.prevFetch # None
      /\ strip(it.prevFetch) = strip(current_content) )
    => it.alerts = <<>>

\* C3: a successful fetch of a url of which the store held no snapshot when
\* the iteration began sends no notification, whatever the content and
\* whether or not the snapshot write succeeds.
C3_FirstFetchSilent ==
  \A t \in Tasks : (Compared(t) /\ ~it.had) => it.alerts = <<>>

\* a first fetch of a url whose write failed and whose read succeeded, with
\* snapshots of another url in the store
C3_Witness ==
  \E t \in Tasks :
    /\ Compared(t) /\ ~it.had /\ ~it.saved /\ it.readok
    /\ website_snapshots # <<>>
    /\ strip(website_snapshots[Len(website_snapshots)].content)
         # strip(current_content)

\* task t is past the stop check of a target iteration (lines 185-200)
PastCheck(t) == running = t /\ pc[t] \in {"scrape", "fetched", "save", "wait"}

\* C4: once a /stop has cleared is_running while a loop was running, that
\* loop passes no further stop check (it exits at the next one, or ends
\* before it) and writes no further snapshot, whatever /start, /stop and
\* /status requests follow.
C4_StopExitsLoop ==
  \A t \in Tasks : stopSeen[t] = "cleared" => ~PastCheck(t)

\* C5: a /start requested while a loop launched by an earlier /start has not
\* ended, with no /stop requested since that launch, launches no loop and
\* answers already-running; and while the earliest such loop runs,
\* started_at is the value it set.
C5_SecondStartRejected ==
  /\ (resp.h = "start" /\ resp.message = "started")
       => \A t \in 1..(ntasks - 1) : pc[t] = "done" \/ stopSeen[t] # "no"
  /\ \A t \in Tasks :
       ( /\ Begun(t) /\ stopSeen[t] = "no"
         /\ \A u \in 1..(t - 1) : pc[u] = "done" )
       => started_at = NowStart(t)

\* C6: at most one loop instance is active (launched and not ended).
C6_AtMostOneLoop == Cardinality({t \in Tasks : Active(t)}) <= 1

\* C7: a loop instance that leaves its loop, when no /stop has been requested
\* since the first launch and no registry read has returned an empty list,
\* leaves it by exhausting its cycles, after cycle 10 has visited every
\* target of its list.
C7_TenCycles ==
  \A t \in Tasks :
    ( /\ pc[t] = "finally"
      /\ \A u \in Tasks : stopSeen[u] = "no" /\ exit[u] # "empty" )
    => /\ exit[t] = "cycles"
       /\ cycle[t] = MaxCycles
       /\ idx[t] = Len(websites[t]) + 1

\* how task t, about to run its finally clause, left the loop: the while
\* condition failed after cycle 10 visited every target; the registry read
\* returned an empty list; the stop check at the top of a target iteration
\* saw the flag cleared
ExitedByCycles(t) ==
  exit[t] = "cycles" /\ cycle[t] = MaxCycles /\ idx[t] = Len(websites[t]) + 1
ExitedByEmpty(t) == exit[t] = "empty" /\ websites[t] = <<>>
ExitedByStop(t) ==
  exit[t] = "stopped" /\ ~is_running /\ idx[t] \in 1..Len(websites[t])

\* C8: every launched loop instance eventually ends, and it leaves its loop
\* only by exhausting 10 cycles, by reading an empty target list, or by seeing
\* the cleared flag at the top of a target iteration.
C8_LoopEnds ==
  /\ \A t \in Tasks : (Active(t) ~> pc[t] = "done")
  /\ [](\A t \in Tasks : pc[t] = "finally" =>
          ExitedByCycles(t) \/ ExitedByEmpty(t) \/ ExitedByStop(t))

\* two loop instances have ended, one by exhausting its cycles and one at a
\* stop check
C8_Witness ==
  \E t, u \in Tasks :
    /\ pc[t] = "done" /\ exit[t] = "cycles"
    /\ pc[u] = "done" /\ exit[u] = "stopped"

\* C9: the step with which a loop instance ends, on whichever exit path,
\* leaves is_running false.
C9_FlagClearedOnExit ==
  [][\A t \in Tasks : (pc[t] # "done" /\ pc'[t] = "done") => ~is_running']_vars

\* a loop instance has ended on the empty-list path while is_running was
\* true until its last step, and another on the stop path
C9_Witness ==
  \E t, u \in Tasks :
    /\ pc[t] = "done" /\ exit[t] = "empty"
    /\ pc[u] = "done" /\ exit[u] = "stopped"
    /\ ~is_running

\* C10: in a target iteration whose fetch returned nothing, last_check holds
\* the time read in this iteration before the fetch, no snapshot has been
\* written and no notification sent, and the next step moves the loop to the
\* next target of the list without writing or sending.
C10_FailedFetchSkips ==
  [][\A t \in Tasks :
       (running = t /\ pc[t] = "fetched" /\ ~Truthy(current_content))
       => /\ last_check = NowCheck(t)
          /\ Len(website_snapshots) = it.rows0
          /\ it.alerts = <<>>
          /\ website_snapshots' = website_snapshots
          /\ it'.alerts = <<>>
          /\ pc'[t] = "for"
          /\ cycle'[t] = cycle[t]
          /\ websites'[t] = websites[t]
          /\ idx'[t] = idx[t] + 1]_vars

\* the fetch of the first of two targets has failed, after an earlier
\* iteration of another cycle set last_check
C10_Witness ==
  \E t \in Tasks :
    /\ running = t /\ pc[t] = "fetched" /\ current_content = None
    /\ cycle[t] > 1 /\ idx[t] < Len(websites[t])
    /\ last_check = NowCheck(t)

\* the step is one of task t's, taken before its first registry read has
\* returned a non-empty list: its first statements, the first read, and the
\* finally clause after an empty first read
FirstReadStep(t) ==
  \/ pc[t] = "created" /\ pc'[t] # "created"
  \/ running = t /\ pc[t] = "while" /\ cycle[t] = 0
  \/ running = t /\ pc[t] = "finally" /\ exit[t] = "empty" /\ cycle[t] = 1

\* C11: a freshly started loop whose first registry read returns an empty
\* list ends at once: its steps up to and including its end leave last_check
\* and the snapshot table as they were and send nothing, and its last step
\* leaves current_cycle = 1 and is_running false.
C11_EmptyFirstRead ==
  [][\A t \in Tasks :
       /\ FirstReadStep(t)
            => /\ last_check' = last_check
               /\ website_snapshots' = website_snapshots
               /\ it' = it /\ it.alerts = <<>>
       /\ (running = t /\ pc[t] = "while" /\ cycle[t] = 0 /\ websites'[t] = <<>>)
            => pc'[t] = "finally"
       /\ (running = t /\ pc[t] = "finally" /\ exit[t] = "empty" /\ cycle[t] = 1)
            => pc'[t] = "done" /\ current_cycle' = 1 /\ ~is_running'
                 /\ running' = 0]_vars

\* a second loop is about to end after an empty first read, an earlier loop
\* having checked a target and written a snapshot
C11_Witness ==
  \E t \in Tasks :
    /\ running = t /\ pc[t] = "finally" /\ exit[t] = "empty" /\ cycle[t] = 1
    /\ last_check # NoTime /\ website_snapshots # <<>>

\* C12: a target iteration that has passed the stop check is left only
\* through the 60-unit wait, whatever the fetch, the write, the comparison
\* and the mail did.
C12_IterationWaits ==
  [][\A t \in Tasks :
       PastCheck(t) => (pc'[t] = "sleeping" \/ (running' = t /\ PastCheck(t)'))]_vars

\* C13: a target iteration whose snapshot write failed sends no notification.
C13_FailedWriteSkips ==
  \A t \in Tasks : (Compared(t) /\ ~it.saved) => it.alerts = <<>>

\* C14: whatever the fetch, the snapshot write, the snapshot read and the
\* mail submission of a target iteration do, the step after them neither
\* ends the loop nor changes its cycle or its list, and the loop's next stop
\* is the following target of the list: at once after a fetch that returned
\* nothing, after the wait otherwise.
C14_FailuresKeepLoop ==
  [][\A t \in Tasks :
       /\ (running = t /\ pc[t] \in {"fetched", "save", "wait"})
            => /\ pc'[t] \in {"for", "save", "wait", "sleeping"}
               /\ exit'[t] = exit[t]
               /\ cycle'[t] = cycle[t]
               /\ websites'[t] = websites[t]
               /\ idx'[t] = IF pc'[t] = "for" THEN idx[t] + 1 ELSE idx[t]
       /\ (pc[t] = "sleeping" /\ pc'[t] # "sleeping")
            => /\ pc'[t] = "for"
               /\ exit'[t] = exit[t]
               /\ cycle'[t] = cycle[t]
               /\ websites'[t] = websites[t]
               /\ idx'[t] = idx[t] + 1]_vars

\* in a cycle after the first, the iteration of the first of two targets has
\* had its snapshot write and its mail submission fail
C14_Witness ==
  \E t \in Tasks :
    /\ Compared(t) /\ ~it.saved
    /\ it.alerts # <<>> /\ ~it.alerts[1].sent
    /\ cycle[t] > 1 /\ idx[t] < Len(websites[t])

\* C15: the loop only appends to the snapshot table: no step removes or
\* alters a row, only the write of a target iteration adds one, and a write
\* that succeeds adds exactly the row (url, fetched content) at the end,
\* also when that content equals the previous snapshot's.
C15_AppendOnly ==
  [][/\ Len(website_snapshots') >= Len(website_snapshots)
     /\ SubSeq(website_snapshots', 1, Len(website_snapshots)) = website_snapshots
     /\ \A t \in Tasks :
          (running = t /\ pc[t] = "save")
          => website_snapshots' =
               IF it'.saved
               THEN Append(website_snapshots,
                           [url |-> Target(t).url, content |-> current_content])
               ELSE website_snapshots
     /\ (\A t \in Tasks : ~(running = t /\ pc[t] = "save"))
          => website_snapshots' = website_snapshots]_vars

\* two successful writes of one url with the same content have left two rows
C15_Witness ==
  /\ Len(website_snapshots) = 2
  /\ website_snapshots[1] = website_snapshots[2]
  /\ \E t \in Tasks : Compared(t) /\ it.saved /\ it.rows0 = 1

\* a target iteration of loop t is in progress: begun (line 186) and not yet
\* past its wait (line 200)
InIteration(t) == pc[t] \in {"scrape", "fetched", "save", "wait", "sleeping"}

\* C16: target processing is strictly sequential, whatever /start and /stop
\* requests arrive: no target iteration begins while another one is in
\* progress, a loop takes the targets of a cycle in the order of the list it
\* read at that cycle's start, and its cycles go up one at a time.
C16_Sequential ==
  [][\A t \in Tasks :
       /\ (~InIteration(t) /\ InIteration(t)')
          => \A u \in Tasks \ {t} : ~InIteration(u)
       /\ idx'[t] # idx[t]
          => \/ idx'[t] = idx[t] + 1
             \/ pc[t] = "while" /\ idx'[t] = 1
             \/ pc'[t] = "done"
       /\ websites'[t] # websites[t] => (pc[t] = "while" \/ pc'[t] = "done")
       /\ cycle'[t] # cycle[t]
          => (cycle'[t] = cycle[t] + 1 \/ pc'[t] = "done")]_vars

\* C17: current_cycle is always in 0..10; in the states a handler can observe
\* (no task holds the thread) while a loop has begun and not ended it is in
\* 1..10; and while a loop runs, current_cycle never decreases and goes up by
\* exactly 1 at a time.
C17_CycleCounter ==
  [][/\ current_cycle \in 0..MaxCycles /\ current_cycle' \in 0..MaxCycles
     /\ (running' = 0 /\ \E t \in Tasks : Begun(t)')
        => current_cycle' \in 1..MaxCycles
     /\ (\E t \in Tasks : Begun(t) /\ Begun(t)')
        => current_cycle' \in {current_cycle, current_cycle + 1}]_vars

\* C18: a notification is sent only in a target iteration whose fetch gave
\* non-empty content and whose snapshot read returned a stored snapshot of
\* that very url whose trimmed text differs from the trimmed fetched text; an
\* iteration sends at most one notification, addressed to the target's email.
C18_AlertOnlyOnChange ==
  /\ Len(it.alerts) <= 1
  /\ it.alerts # <<>>
     => \E t \in Tasks :
          /\ Compared(t)
          /\ Truthy(current_content)
          /\ it.readok
          /\ \E i \in RowsOf(website_snapshots, Target(t).url) :
               previous_content = website_snapshots[i].content
          /\ strip(previous_content) # strip(current_content)
          /\ it.alerts[1].to = Target(t).email
          /\ it.alerts[1].url = Target(t).url

\* a notification went out for one url while the store also holds a snapshot
\* of another url
C18_Witness ==
  \E t \in Tasks :
    /\ Compared(t) /\ it.alerts # <<>> /\ it.alerts[1].sent
    /\ \E i \in 1..Len(website_snapshots) :
         website_snapshots[i].url # Target(t).url

\* C19: is_running is never stale-true: whenever it is true some loop has
\* begun and not yet ended, and it turns true only in a step in which a loop
\* begins; so once every launched loop has ended it is false and stays false
\* until the next loop begins.
C19_NoStaleFlag ==
  [][/\ is_running' => \E t \in Tasks : Begun(t)'
     /\ (~is_running /\ is_running')
        => \E t \in Tasks : pc[t] = "created" /\ Begun(t)']_vars

\* the flag is up for a loop that began after an earlier loop had ended
C19_Witness ==
  /\ is_running
  /\ \E t, u \in Tasks : pc[t] = "done" /\ Begun(u)

====
